---- MODULE Spec2Model ----
(***************************************************************************)
(* Snapshot generation and rotation subsystem of src/index.js: the         *)
(* generator generateSnapshot, the public reader GET /api/games, the admin *)
(* trigger, the cron tick and the pool-games admin writes, over a Postgres *)
(* database reached through a pg connection pool.                          *)
(*                                                                         *)
(* Every statement of the program is issued with pool.query, so each one   *)
(* runs on whichever pooled connection the pool hands out.  A connection   *)
(* carries its own transaction state; BEGIN, COMMIT and ROLLBACK act on    *)
(* the connection they happen to run on.  A statement that fails makes     *)
(* pool.query release its client with the error, which closes the          *)
(* connection and so rolls back whatever transaction was open on it.       *)
(***************************************************************************)
EXTENDS Integers, Sequences, FiniteSets, TLC

\* ---------------------------------------------------------------- bounds
MaxPool == 2        \* pool_games ids handed out by the SERIAL column
MaxSize == 2        \* largest configured SNAPSHOT_SIZE
NumConns == 2       \* connections of the pg pool
MaxTasks == 1       \* handlers in flight at once
MaxGens == 2        \* generateSnapshot calls in one behaviour
MaxFaults == 2      \* storage failures in one behaviour
MaxAdminOps == 1    \* pool-games admin writes in one behaviour
MaxReads == 1       \* GET /api/games requests in one behaviour
MaxJumps == 1       \* long waits between requests in one behaviour
MaxSwitches == 1    \* times the pool hands out another client than the last
HOUR == 12          \* clock ticks per hour (one statement takes one tick)
Slack == 40         \* ticks the clock may run past the jumps below
MaxTokens == 2      \* admin tokens a login can draw
MaxMissed == 1      \* cadence instants that pass with no trigger registered
MaxPickLen == 3     \* longest array handed to pickRandom on its own
MaxPickN == 3       \* largest n handed to pickRandom on its own

\* ------------------------------------------------------ program constants
SNAPSHOT_TTL_HOURS == 2
RETENTION_DAYS == 7
ADMIN_TOKEN_TTL_MIN == 120

TTL == SNAPSHOT_TTL_HOURS * HOUR
DAY == 24 * HOUR
RETENTION == RETENTION_DAYS * DAY
MaxTime == RETENTION + TTL + Slack
TOKEN_TTL == (ADMIN_TOKEN_TTL_MIN * HOUR) \div 60

PoolIds == 1..MaxPool
Conns == 1..NumConns
Tasks == 1..MaxTasks
SizeValues == {0, MaxSize}
PercentInputs == {-5}
TokenIds == 1..MaxTokens
NoToken == 0
TokenInputs == TokenIds \cup {NoToken}
CronValues == {"0 * * * *", "every hour"}
Absent == [absent |-> TRUE]
NoLabel == [none |-> TRUE]

VARIABLES
  now,             \* wall clock, in ticks
  SNAPSHOT_SIZE,   \* configured batch size (process.env.SNAPSHOT_SIZE)
  pool_games,      \* committed table pool_games: id -> entry or Absent
  nextPoolId,      \* SERIAL sequence of pool_games.id
  game_snapshots,  \* committed table game_snapshots: set of rows
  rtp_updated_text,\* committed site_settings value of key rtp_updated_text
  conn,            \* per pooled connection: its open transaction
  task,            \* per handler in flight: kind, position, locals
  gens,            \* number of generateSnapshot calls started
  faults,          \* number of storage failures so far
  adminOps,        \* number of pool-games admin writes so far
  reads,           \* number of GET /api/games requests so far
  jumps,           \* number of long waits so far
  last,            \* the connection the pool released last
  switches,        \* number of times a statement got another connection
  log,             \* outcome of every generateSnapshot call, by call number
  pk,              \* a stand-alone call of pickRandom: input and result
  SNAPSHOT_CRON,   \* configured cadence (process.env.SNAPSHOT_CRON)
  server,          \* the process: start-up position, listening, cron trigger
  tokenStore       \* Map token -> expiresAt of the admin logins

vars == <<now, SNAPSHOT_SIZE, pool_games, nextPoolId, game_snapshots,
          rtp_updated_text, conn, task, gens, faults, adminOps, reads, jumps, last, switches, log, pk, SNAPSHOT_CRON, server, tokenStore>>

\* ------------------------------------------------------------ pure helpers
Min(a, b) == IF a < b THEN a ELSE b
Max(a, b) == IF a > b THEN a ELSE b

\* clampInt(n, min, max, fallback) on an integer argument
clampInt(n, lo, hi) == Max(lo, Min(hi, n))

\* a splice that takes out the element after the k-th (wrapping round)
SpliceNext(a, k) ==
  [j \in 1..(Len(a) - 1) |-> IF j < (k % Len(a)) + 1 THEN a[j] ELSE a[j + 1]]

\* Array.prototype.splice(k, 1) on a: a without its k-th element
Splice(a, k) == [j \in 1..(Len(a) - 1) |-> IF j < k THEN a[j] ELSE a[j + 1]]

\* the loop of pickRandom over the copy a = [...arr]: every final (a, out)
\* the random source allows
RECURSIVE PickLoop(_, _, _)
PickLoop(a, out, n) ==
  IF Len(a) > 0 /\ Len(out) < n
    THEN UNION { PickLoop(Splice(a, k), Append(out, a[k]), n) : k \in 1..Len(a) }
    ELSE { [a |-> a, out |-> out] }

\* pickRandom(arr, n): the returned array and the input array afterwards
\* (the loop splices the copy, nothing assigns to arr)
pickRandom(arr, n) ==
  { [out |-> s.out, arr |-> arr] : s \in PickLoop(arr, <<>>, n) }

\* nowIdDateIndo(): weekday and calendar day of the clock
nowIdDateIndo(t) == [weekday |-> ((t \div DAY) + 4) % 7, date |-> t \div DAY]

\* Math.max(1, SNAPSHOT_SIZE)
BatchLimit == Max(1, SNAPSHOT_SIZE)

\* ------------------------------------------------------------ the database
NoWrite == [nowrite |-> TRUE]

\* a pooled connection with no transaction open
IdleConn == [tx |-> FALSE, start |-> 0, ins |-> {}, del |-> {},
             label |-> NoLabel, poolw |-> [i \in PoolIds |-> NoWrite]]

\* NOW() on connection c: the start of its transaction, else the clock
NOW(c) == IF conn[c].tx THEN conn[c].start ELSE now

\* what a statement on connection c sees (READ COMMITTED): the committed
\* tables overlaid with the connection's own uncommitted writes
SeenSnapshots(c) == (game_snapshots \ conn[c].del) \cup conn[c].ins
SeenPool(c) ==
  [i \in PoolIds |-> IF conn[c].poolw[i] = NoWrite THEN pool_games[i]
                                                   ELSE conn[c].poolw[i]]

\* row locks held by the open transactions of the other connections
LabelLocked(c) == \E d \in Conns \ {c} : conn[d].label # NoLabel
RowsLocked(c, rows) == \E d \in Conns \ {c} : conn[d].del \cap rows # {}
PoolRowLocked(c, i) == \E d \in Conns \ {c} : conn[d].poolw[i] # NoWrite

\* a write statement on connection c: kept in c's open transaction, or
\* committed at once when c has no transaction open (autocommit)
Write(c, ins, del, label, poolw) ==
  IF conn[c].tx
    THEN /\ conn' = [conn EXCEPT
                ![c].ins = (@ \ del) \cup ins,
                ![c].del = @ \cup (del \cap game_snapshots),
                ![c].label = IF label = NoLabel THEN @ ELSE label,
                ![c].poolw = [i \in PoolIds |->
                               IF poolw[i] = NoWrite THEN @[i] ELSE poolw[i]]]
         /\ UNCHANGED <<game_snapshots, rtp_updated_text, pool_games>>
    ELSE /\ game_snapshots' = (game_snapshots \ del) \cup ins
         /\ rtp_updated_text' = IF label = NoLabel THEN rtp_updated_text ELSE label
         /\ pool_games' = [i \in PoolIds |->
                            IF poolw[i] = NoWrite THEN pool_games[i] ELSE poolw[i]]
         /\ conn' = conn

NoPoolWrite == [i \in PoolIds |-> NoWrite]

\* COMMIT on connection c (a warning and no effect without a transaction)
Commit(c) ==
  /\ game_snapshots' = (game_snapshots \ conn[c].del) \cup conn[c].ins
  /\ rtp_updated_text' = IF conn[c].label = NoLabel THEN rtp_updated_text
                                                    ELSE conn[c].label
  /\ pool_games' = SeenPool(c)
  /\ conn' = [conn EXCEPT ![c] = IdleConn]

\* ROLLBACK on connection c, and also what closing the connection does
Rollback(c) ==
  /\ conn' = [conn EXCEPT ![c] = IdleConn]
  /\ UNCHANGED <<game_snapshots, rtp_updated_text, pool_games>>

\* BEGIN on connection c (a warning and no effect inside a transaction)
Begin(c) ==
  /\ conn' = IF conn[c].tx THEN conn
              ELSE [conn EXCEPT ![c].tx = TRUE, ![c].start = now]
  /\ UNCHANGED <<game_snapshots, rtp_updated_text, pool_games>>

\* pool.query(...) runs on connection c.  The pool hands out the client that
\* was released last; it is another one when other traffic on the pool (the
\* requests a listening server answers) took or returned a client in
\* between.  Every statement takes one clock tick.
PoolQuery(c) ==
  /\ now < MaxTime
  /\ now' = now + 1
  /\ c = last \/ (switches < MaxSwitches /\ server.pc = "listening")
  /\ last' = c
  /\ switches' = IF c = last THEN switches ELSE switches + 1

\* a pool.query that rejects: the pool closes the connection it ran on
Fails(c) ==
  /\ faults < MaxFaults
  /\ faults' = faults + 1
  /\ Rollback(c)

\* ORDER BY created_at DESC LIMIT k over a set of rows: every row order the
\* database may return (rows of equal created_at come in any order)
RECURSIVE OrderByCreatedDesc(_, _)
OrderByCreatedDesc(rows, k) ==
  IF rows = {} \/ k = 0 THEN { <<>> }
  ELSE LET newest == { r \in rows : \A q \in rows : q.created_at <= r.created_at }
       IN UNION { { <<r>> \o rest : rest \in OrderByCreatedDesc(rows \ {r}, k - 1) } :
                  r \in newest }

\* the first query without its LIMIT
FreshQueryNoLimit(c) ==
  OrderByCreatedDesc({ r \in SeenSnapshots(c) : r.created_at >= NOW(c) - TTL },
                     Cardinality(SeenSnapshots(c)))

\* the reader's first query, on connection c
FreshQuery(c) ==
  OrderByCreatedDesc({ r \in SeenSnapshots(c) : r.created_at >= NOW(c) - TTL },
                     BatchLimit)

\* the reader's second query, on connection c
LatestQuery(c) == OrderByCreatedDesc(SeenSnapshots(c), BatchLimit)

\* a condition that every stored row meets
AnyRow(e) == e # Absent

\* WHERE enabled=true
WhereEnabled(e) == e # Absent /\ e.enabled

\* SELECT * FROM pool_games WHERE enabled=true, on connection c
RECURSIVE EnabledFrom(_, _)
EnabledFrom(seen, i) ==
  IF i > MaxPool THEN <<>>
  ELSE (IF WhereEnabled(seen[i])
          THEN << [id |-> i, percent |-> seen[i].percent] >> ELSE <<>>)
       \o EnabledFrom(seen, i + 1)
EnabledPool(c) == EnabledFrom(SeenPool(c), 1)

\* ------------------------------------------------------------ the handlers
NoOutcome == [pending |-> TRUE]
Threw == [threw |-> TRUE]
Skipped == [ok |-> FALSE, reason |-> "no_pool"]
Succeeded(count) == [ok |-> TRUE, count |-> count]
Failed == [ok |-> FALSE, error |-> "snapshot_failed"]
NoBody == [nobody |-> TRUE]
ErrorBody == [error |-> "Failed to read games"]
NoPre == [nopre |-> TRUE]

\* a free handler slot
IdleTask == [kind |-> "none", pc |-> "idle", chosen |-> <<>>, i |-> 0, gen |-> 0,
             outcome |-> NoOutcome, status |-> 0, body |-> NoBody,
             pre |-> NoPre, solo |-> TRUE]

GenPcs == {"select", "begin", "insert", "label", "prune", "commit", "rollback"}

\* task t takes a step to record rec; every other handler that is inside
\* generateSnapshot has now seen another statement run during its call
Step(t, rec) ==
  task' = [u \in DOMAIN task |->
             IF u = t THEN rec
             ELSE IF task[u].pc \in GenPcs THEN [task[u] EXCEPT !.solo = FALSE]
             ELSE task[u]]

\* the caller enters generateSnapshot: committed tables as the call finds them
EnterGen(rec) ==
  [rec EXCEPT !.pc = "select", !.gen = gens + 1, !.outcome = NoOutcome,
              !.pre = [snap |-> game_snapshots, label |-> rtp_updated_text, at |-> now],
              !.solo = TRUE]

\* generateSnapshot returns outcome o to its caller
Return(rec, o) ==
  IF rec.kind = "games"
    THEN [rec EXCEPT !.outcome = o, !.pc = "q2"]
  ELSE IF rec.kind = "run"
    THEN [rec EXCEPT !.outcome = o, !.pc = "done", !.status = 200, !.body = o]
  ELSE IF rec.kind = "boot"
    THEN [rec EXCEPT !.outcome = o, !.pc = "cron"]
  ELSE [rec EXCEPT !.outcome = o, !.pc = "done"]

\* generateSnapshot rejects: GET /api/games catches and answers 500; the
\* start-up chain goes to its .catch; the admin trigger and the cron callback
\* have no handler and the rejection is unhandled
Throw(rec) ==
  IF rec.kind = "games"
    THEN [rec EXCEPT !.outcome = Threw, !.pc = "done", !.status = 500, !.body = ErrorBody]
  ELSE IF rec.kind = "boot"
    THEN [rec EXCEPT !.outcome = Threw, !.pc = "catch"]
  ELSE [rec EXCEPT !.outcome = Threw, !.pc = "done"]

\* the step of task t that ends its generateSnapshot call records the outcome
GenLog(t) ==
  log' = IF task[t].pc \in GenPcs /\ task'[t].pc \notin GenPcs
           THEN [log EXCEPT ![task[t].gen] = task'[t].outcome]
           ELSE log

\* SELECT ... WHERE enabled=true, the empty-pool return and pickRandom
GenSelect(t) ==
  /\ task[t].pc = "select"
  /\ \E c \in Conns :
       /\ PoolQuery(c)
       /\ \/ /\ UNCHANGED <<conn, game_snapshots, rtp_updated_text, pool_games, faults>>
             /\ LET poolList == EnabledPool(c) IN
                IF Len(poolList) = 0
                  THEN Step(t, Return(task[t], Skipped))
                  ELSE \E p \in pickRandom(poolList, BatchLimit) :
                         Step(t, [task[t] EXCEPT !.pc = "begin", !.chosen = p.out])
          \/ /\ Fails(c)
             /\ Step(t, Throw(task[t]))
  /\ GenLog(t)
  /\ UNCHANGED <<SNAPSHOT_SIZE, nextPoolId, gens, adminOps, reads, jumps, pk, SNAPSHOT_CRON, server, tokenStore>>

\* await pool.query("BEGIN"), outside the try block
GenBegin(t) ==
  /\ task[t].pc = "begin"
  /\ \E c \in Conns :
       /\ PoolQuery(c)
       /\ \/ /\ Begin(c)
             /\ UNCHANGED faults
             /\ Step(t, [task[t] EXCEPT !.pc = "insert", !.i = 1])
          \/ /\ Fails(c)
             /\ Step(t, Throw(task[t]))
  /\ GenLog(t)
  /\ UNCHANGED <<SNAPSHOT_SIZE, nextPoolId, gens, adminOps, reads, jumps, pk, SNAPSHOT_CRON, server, tokenStore>>

\* the row one INSERT of the batch writes for pool entry g on connection c
SnapshotRow(g, gen, c) ==
  [by |-> gen, src |-> g.id, percent |-> clampInt(g.percent, 0, 100),
   created_at |-> NOW(c)]

\* one INSERT INTO game_snapshots of the for loop
GenInsert(t) ==
  /\ task[t].pc = "insert"
  /\ \E c \in Conns :
       /\ PoolQuery(c)
       /\ \/ /\ Write(c, {SnapshotRow(task[t].chosen[task[t].i], task[t].gen, c)},
                        {}, NoLabel, NoPoolWrite)
             /\ UNCHANGED faults
             /\ Step(t, [task[t] EXCEPT
                           !.i = @ + 1,
                           !.pc = IF task[t].i = Len(task[t].chosen) THEN "label" ELSE "insert"])
          \/ /\ Fails(c)
             /\ Step(t, [task[t] EXCEPT !.pc = "rollback"])
  /\ GenLog(t)
  /\ UNCHANGED <<SNAPSHOT_SIZE, nextPoolId, gens, adminOps, reads, jumps, pk, SNAPSHOT_CRON, server, tokenStore>>

\* setSetting("rtp_updated_text", `Update RTP: ${nowIdDateIndo()}`)
setSetting(t) ==
  /\ task[t].pc = "label"
  /\ \E c \in Conns :
       /\ PoolQuery(c)
       /\ \/ /\ ~LabelLocked(c)
             /\ Write(c, {}, {}, nowIdDateIndo(now), NoPoolWrite)
             /\ UNCHANGED faults
             /\ Step(t, [task[t] EXCEPT !.pc = "prune"])
          \/ /\ Fails(c)
             /\ Step(t, [task[t] EXCEPT !.pc = "rollback"])
  /\ GenLog(t)
  /\ UNCHANGED <<SNAPSHOT_SIZE, nextPoolId, gens, adminOps, reads, jumps, pk, SNAPSHOT_CRON, server, tokenStore>>

\* a prune whose horizon is the freshness window
ExpiredByTTL(c) == { r \in SeenSnapshots(c) : r.created_at < NOW(c) - TTL }

\* rows the prune on connection c deletes: created_at < NOW() - 7 days
Expired(c) == { r \in SeenSnapshots(c) : r.created_at < NOW(c) - RETENTION }

\* DELETE FROM game_snapshots WHERE created_at < NOW() - INTERVAL '7 days'
GenPrune(t) ==
  /\ task[t].pc = "prune"
  /\ \E c \in Conns :
       /\ PoolQuery(c)
       /\ \/ /\ ~RowsLocked(c, Expired(c))
             /\ Write(c, {}, Expired(c), NoLabel, NoPoolWrite)
             /\ UNCHANGED faults
             /\ Step(t, [task[t] EXCEPT !.pc = "commit"])
          \/ /\ Fails(c)
             /\ Step(t, [task[t] EXCEPT !.pc = "rollback"])
  /\ GenLog(t)
  /\ UNCHANGED <<SNAPSHOT_SIZE, nextPoolId, gens, adminOps, reads, jumps, pk, SNAPSHOT_CRON, server, tokenStore>>

\* await pool.query("COMMIT") and return { ok: true, count }
GenCommit(t) ==
  /\ task[t].pc = "commit"
  /\ \E c \in Conns :
       /\ PoolQuery(c)
       /\ \/ /\ Commit(c)
             /\ UNCHANGED faults
             /\ Step(t, Return(task[t], Succeeded(Len(task[t].chosen))))
          \/ /\ Fails(c)
             /\ Step(t, [task[t] EXCEPT !.pc = "rollback"])
  /\ GenLog(t)
  /\ UNCHANGED <<SNAPSHOT_SIZE, nextPoolId, gens, adminOps, reads, jumps, pk, SNAPSHOT_CRON, server, tokenStore>>

\* catch: await pool.query("ROLLBACK") and return the failed outcome
GenRollback(t) ==
  /\ task[t].pc = "rollback"
  /\ \E c \in Conns :
       /\ PoolQuery(c)
       /\ \/ /\ Rollback(c)
             /\ UNCHANGED faults
             /\ Step(t, Return(task[t], Failed))
          \/ /\ Fails(c)
             /\ Step(t, Throw(task[t]))
  /\ GenLog(t)
  /\ UNCHANGED <<SNAPSHOT_SIZE, nextPoolId, gens, adminOps, reads, jumps, pk, SNAPSHOT_CRON, server, tokenStore>>

\* ------------------------------------------------------- start and cron
\* the server accepts requests without waiting for the start-up chain
AlwaysListening == TRUE

\* app.listen has been called: requests reach the handlers
Listening == server.pc = "listening"

\* a cron.schedule that registers whatever it is given
cronScheduleAny(expr) == TRUE

\* cron.schedule(expr, callback) registers the trigger; node-cron validates
\* the expression and throws on one it cannot parse
cronSchedule(expr) == expr = "0 * * * *"

\* the process starts
NotStarted == [pc |-> "initDb", cron |-> FALSE, startup |-> "none", missed |-> 0]

\* initDb() creates the tables and seeds the default settings (the label
\* only when its key is missing); when it resolves, the start-up call of
\* generateSnapshot is made; when it rejects, .catch starts listening
InitDb(t) ==
  /\ server.pc = "initDb"
  /\ task[t].pc = "idle"
  /\ \/ /\ gens < MaxGens
        /\ gens' = gens + 1
        /\ log' = Append(log, NoOutcome)
        /\ task' = [task EXCEPT ![t] = EnterGen([IdleTask EXCEPT !.kind = "boot"])]
        /\ server' = [server EXCEPT !.pc = "startup", !.startup = "running"]
        /\ UNCHANGED faults
     \/ /\ faults < MaxFaults
        /\ faults' = faults + 1
        /\ server' = [server EXCEPT !.pc = "listening"]
        /\ UNCHANGED <<gens, log, task>>
  /\ UNCHANGED <<now, SNAPSHOT_SIZE, pool_games, nextPoolId, game_snapshots,
                 rtp_updated_text, conn, adminOps, reads, jumps, last, switches,
                 pk, SNAPSHOT_CRON, tokenStore>>

\* the start-up call returned: try { cron.schedule(...) } catch { log };
\* app.listen(PORT)
BootSchedule(t) ==
  /\ task[t].kind = "boot" /\ task[t].pc = "cron"
  /\ server' = [server EXCEPT !.pc = "listening", !.startup = "returned",
                              !.cron = cronSchedule(SNAPSHOT_CRON)]
  /\ task' = [task EXCEPT ![t] = IdleTask]
  /\ UNCHANGED <<now, SNAPSHOT_SIZE, pool_games, nextPoolId, game_snapshots,
                 rtp_updated_text, conn, gens, faults, adminOps, reads, jumps,
                 last, switches, log, pk, SNAPSHOT_CRON, tokenStore>>

\* the start-up call rejected: .catch logs and calls app.listen(PORT)
BootCatch(t) ==
  /\ task[t].kind = "boot" /\ task[t].pc = "catch"
  /\ server' = [server EXCEPT !.pc = "listening", !.startup = "threw"]
  /\ task' = [task EXCEPT ![t] = IdleTask]
  /\ UNCHANGED <<now, SNAPSHOT_SIZE, pool_games, nextPoolId, game_snapshots,
                 rtp_updated_text, conn, gens, faults, adminOps, reads, jumps,
                 last, switches, log, pk, SNAPSHOT_CRON, tokenStore>>

\* an instant of the configured cadence passes in a process that has no
\* trigger registered: nothing is called
TickUnscheduled ==
  /\ server.pc = "listening" /\ ~server.cron
  /\ cronSchedule(SNAPSHOT_CRON)
  /\ \A t \in Tasks : task[t].pc = "idle"
  /\ server.missed < MaxMissed
  /\ server' = [server EXCEPT !.missed = @ + 1]
  /\ UNCHANGED <<now, SNAPSHOT_SIZE, pool_games, nextPoolId, game_snapshots,
                 rtp_updated_text, conn, task, gens, faults, adminOps, reads, jumps,
                 last, switches, log, pk, SNAPSHOT_CRON, tokenStore>>

\* ------------------------------------------------------- GET /api/games
\* the request arrives
GetGames(t) ==
  /\ Listening
  /\ task[t].pc = "idle"
  /\ reads < MaxReads
  /\ reads' = reads + 1
  /\ task' = [task EXCEPT ![t] = [IdleTask EXCEPT !.kind = "games", !.pc = "q1"]]
  /\ UNCHANGED <<now, SNAPSHOT_SIZE, pool_games, nextPoolId, game_snapshots,
                 rtp_updated_text, conn, gens, faults, adminOps, jumps, last, switches, log, pk, SNAPSHOT_CRON, server, tokenStore>>

\* the freshness-window query; answer with its rows, or call generateSnapshot
GamesQuery1(t) ==
  /\ task[t].pc = "q1"
  /\ \E c \in Conns :
       /\ PoolQuery(c)
       /\ \/ /\ UNCHANGED <<conn, game_snapshots, rtp_updated_text, pool_games, faults>>
             /\ \E r \in FreshQuery(c) :
                  IF Len(r) = 0
                    THEN /\ gens < MaxGens
                         /\ gens' = gens + 1
                         /\ log' = Append(log, NoOutcome)
                         /\ Step(t, EnterGen(task[t]))
                    ELSE /\ UNCHANGED <<gens, log>>
                         /\ Step(t, [task[t] EXCEPT !.pc = "done", !.status = 200, !.body = r])
          \/ /\ Fails(c)
             /\ UNCHANGED <<gens, log>>
             /\ Step(t, [task[t] EXCEPT !.pc = "done", !.status = 500, !.body = ErrorBody])
  /\ UNCHANGED <<SNAPSHOT_SIZE, nextPoolId, adminOps, reads, jumps, pk, SNAPSHOT_CRON, server, tokenStore>>

\* after generateSnapshot returned: the re-query without the window
GamesQuery2(t) ==
  /\ task[t].pc = "q2"
  /\ \E c \in Conns :
       /\ PoolQuery(c)
       /\ \/ /\ UNCHANGED <<conn, game_snapshots, rtp_updated_text, pool_games, faults>>
             /\ \E r \in LatestQuery(c) :
                  Step(t, [task[t] EXCEPT !.pc = "done", !.status = 200, !.body = r])
          \/ /\ Fails(c)
             /\ Step(t, [task[t] EXCEPT !.pc = "done", !.status = 500, !.body = ErrorBody])
  /\ GenLog(t)
  /\ UNCHANGED <<SNAPSHOT_SIZE, nextPoolId, gens, adminOps, reads, jumps, pk, SNAPSHOT_CRON, server, tokenStore>>

\* ------------------------------------ the other callers of generateSnapshot
\* POST /api/admin/snapshot/run, past requireAdmin
AdminSnapshotRun(t) ==
  /\ Listening
  /\ task[t].pc = "idle"
  /\ gens < MaxGens
  /\ gens' = gens + 1
  /\ log' = Append(log, NoOutcome)
  /\ task' = [task EXCEPT ![t] = EnterGen([IdleTask EXCEPT !.kind = "run"])]
  /\ UNCHANGED <<now, SNAPSHOT_SIZE, pool_games, nextPoolId, game_snapshots,
                 rtp_updated_text, conn, faults, adminOps, reads, jumps, last, switches, pk, SNAPSHOT_CRON, server, tokenStore>>

\* ------------------------------------------------------------ admin auth
\* POST /api/admin/login with the right password: issueToken() stores a
\* fresh random token with its expiry (a wrong password is answered 401 and
\* changes nothing)
AdminLogin ==
  /\ Listening
  /\ \A t \in Tasks : task[t].pc = "idle"
  /\ \E token \in TokenIds \ DOMAIN tokenStore :
       tokenStore' = [x \in DOMAIN tokenStore \cup {token} |->
                        IF x = token THEN now + TOKEN_TTL ELSE tokenStore[x]]
  /\ UNCHANGED <<now, SNAPSHOT_SIZE, pool_games, nextPoolId, game_snapshots,
                 rtp_updated_text, conn, task, gens, faults, adminOps, reads, jumps,
                 last, switches, log, pk, SNAPSHOT_CRON, server>>

\* a token check that never looks at the expiry
isTokenKnown(token) ==
  /\ token # NoToken
  /\ token \in DOMAIN tokenStore

\* isTokenValid(token): its result
isTokenValid(token) ==
  /\ token # NoToken
  /\ token \in DOMAIN tokenStore
  /\ tokenStore[token] # 0
  /\ ~(now > tokenStore[token])

\* isTokenValid(token): tokenStore afterwards (an expired token is deleted)
TokenStoreAfter(token) ==
  IF token \in DOMAIN tokenStore /\ tokenStore[token] # 0 /\ now > tokenStore[token]
    THEN [x \in DOMAIN tokenStore \ {token} |-> tokenStore[x]]
    ELSE tokenStore

Unauthorized == [error |-> "Unauthorized"]

\* POST /api/admin/snapshot/run with x-admin-token: requireAdmin answers 401
\* or hands over to the handler
AdminSnapshotRunRequest(t, token) ==
  \/ /\ isTokenValid(token)
     /\ AdminSnapshotRun(t)
  \/ /\ ~isTokenValid(token)
     /\ Listening
     /\ task[t].pc = "idle"
     /\ task' = [task EXCEPT ![t] = [IdleTask EXCEPT !.kind = "run", !.pc = "done",
                                                    !.status = 401, !.body = Unauthorized]]
     /\ tokenStore' = TokenStoreAfter(token)
     /\ UNCHANGED <<now, SNAPSHOT_SIZE, pool_games, nextPoolId, game_snapshots,
                    rtp_updated_text, conn, gens, faults, adminOps, reads, jumps,
                    last, switches, log, pk, SNAPSHOT_CRON, server>>

\* an instant of the cadence in a process with the trigger registered: the
\* cron callback runs
CronTick(t) ==
  /\ server.cron
  /\ task[t].pc = "idle"
  /\ gens < MaxGens
  /\ gens' = gens + 1
  /\ log' = Append(log, NoOutcome)
  /\ task' = [task EXCEPT ![t] = EnterGen([IdleTask EXCEPT !.kind = "tick"])]
  /\ UNCHANGED <<now, SNAPSHOT_SIZE, pool_games, nextPoolId, game_snapshots,
                 rtp_updated_text, conn, faults, adminOps, reads, jumps, last, switches, pk, SNAPSHOT_CRON, server, tokenStore>>

\* the handler is over and its slot is free again
Finish(t) ==
  /\ task[t].pc = "done"
  /\ task' = [task EXCEPT ![t] = IdleTask]
  /\ UNCHANGED <<now, SNAPSHOT_SIZE, pool_games, nextPoolId, game_snapshots,
                 rtp_updated_text, conn, gens, faults, adminOps, reads, jumps, last, switches, log, pk, SNAPSHOT_CRON, server, tokenStore>>

\* ------------------------------------------------- pool-games admin writes
\* POST /api/admin/pool-games/upsert with body {id, percent, enabled}:
\* INSERT when id is 0 or missing, else UPDATE ... WHERE id=$13
PoolGamesUpsert(id, percent, enabled) ==
  /\ Listening
  /\ \A t \in Tasks : task[t].pc = "idle"
  /\ adminOps < MaxAdminOps
  /\ adminOps' = adminOps + 1
  /\ LET gid == IF id # 0 THEN clampInt(id, 1, 999999999) ELSE 0
         entry == [percent |-> clampInt(percent, 0, 100), enabled |-> enabled]
     IN \E c \in Conns :
          /\ PoolQuery(c)
          /\ \/ /\ gid = 0
                /\ nextPoolId <= MaxPool
                /\ nextPoolId' = nextPoolId + 1
                /\ Write(c, {}, {}, NoLabel, [NoPoolWrite EXCEPT ![nextPoolId] = entry])
                /\ UNCHANGED faults
             \/ /\ gid # 0
                /\ ~PoolRowLocked(c, gid)
                /\ nextPoolId' = nextPoolId
                /\ IF SeenPool(c)[gid] # Absent
                     THEN Write(c, {}, {}, NoLabel, [NoPoolWrite EXCEPT ![gid] = entry])
                     ELSE UNCHANGED <<conn, game_snapshots, rtp_updated_text, pool_games>>
                /\ UNCHANGED faults
             \/ /\ Fails(c)
                /\ nextPoolId' = nextPoolId
  /\ UNCHANGED <<SNAPSHOT_SIZE, task, gens, reads, jumps, log, pk, SNAPSHOT_CRON, server, tokenStore>>

\* POST /api/admin/pool-games/delete with body {id}
PoolGamesDelete(id) ==
  /\ Listening
  /\ \A t \in Tasks : task[t].pc = "idle"
  /\ adminOps < MaxAdminOps
  /\ adminOps' = adminOps + 1
  /\ clampInt(id, 1, 999999999) = id
  /\ \E c \in Conns :
       /\ PoolQuery(c)
       /\ \/ /\ ~PoolRowLocked(c, id)
             /\ IF SeenPool(c)[id] # Absent
                  THEN Write(c, {}, {}, NoLabel, [NoPoolWrite EXCEPT ![id] = Absent])
                  ELSE UNCHANGED <<conn, game_snapshots, rtp_updated_text, pool_games>>
             /\ UNCHANGED faults
          \/ Fails(c)
  /\ UNCHANGED <<SNAPSHOT_SIZE, task, nextPoolId, gens, reads, jumps, log, pk, SNAPSHOT_CRON, server, tokenStore>>

\* ------------------------------------------------------------ environment
\* time passes with nothing running: a freshness window, or the retention
TimePasses(d) ==
  /\ server.pc = "listening"
  /\ \A t \in Tasks : task[t].pc = "idle"
  /\ jumps < MaxJumps
  /\ jumps' = jumps + 1
  /\ now + d <= MaxTime
  /\ now' = now + d
  /\ UNCHANGED <<SNAPSHOT_SIZE, pool_games, nextPoolId, game_snapshots,
                 rtp_updated_text, conn, task, gens, faults, adminOps, reads, last, switches, log, pk, SNAPSHOT_CRON, server, tokenStore>>

\* the pool closes an idle connection (idleTimeoutMillis): the server rolls
\* back the transaction left open on it
ConnClose(c) ==
  /\ server.pc = "listening"
  /\ \A t \in Tasks : task[t].pc = "idle"
  /\ conn[c] # IdleConn
  /\ Rollback(c)
  /\ UNCHANGED <<now, SNAPSHOT_SIZE, nextPoolId, task, gens, faults, adminOps, reads, jumps, last, switches, log, pk, SNAPSHOT_CRON, server, tokenStore>>

\* ------------------------------------------------------ the specification
\* a pool_games row as an earlier process lifetime left it
SeedEntry == [percent |-> 50, enabled |-> TRUE]

NoPick == [arr |-> <<>>, n |-> 0, done |-> FALSE, out |-> <<>>, after |-> <<>>]

Init ==
  /\ now = 0
  /\ SNAPSHOT_SIZE \in SizeValues
  /\ \E k \in 0..MaxPool :
       /\ pool_games = [i \in PoolIds |-> IF i <= k THEN SeedEntry ELSE Absent]
       /\ nextPoolId = k + 1
  /\ game_snapshots = {}
  /\ rtp_updated_text = nowIdDateIndo(0)
  /\ conn = [c \in Conns |-> IdleConn]
  /\ task = [t \in Tasks |-> IdleTask]
  /\ gens = 0
  /\ faults = 0
  /\ adminOps = 0
  /\ reads = 0
  /\ jumps = 0
  /\ last = 1
  /\ switches = 0
  /\ log = <<>>
  /\ pk = NoPick
  /\ SNAPSHOT_CRON \in CronValues
  /\ server = NotStarted
  /\ tokenStore = <<>>

Next ==
  \/ \E t \in Tasks : InitDb(t)
  \/ \E t \in Tasks : BootSchedule(t)
  \/ \E t \in Tasks : BootCatch(t)
  \/ TickUnscheduled
  \/ \E t \in Tasks : GetGames(t)
  \/ \E t \in Tasks : GamesQuery1(t)
  \/ \E t \in Tasks : GamesQuery2(t)
  \/ \E t \in Tasks : AdminSnapshotRun(t)
  \/ \E t \in Tasks : CronTick(t)
  \/ \E t \in Tasks : GenSelect(t)
  \/ \E t \in Tasks : GenBegin(t)
  \/ \E t \in Tasks : GenInsert(t)
  \/ \E t \in Tasks : setSetting(t)
  \/ \E t \in Tasks : GenPrune(t)
  \/ \E t \in Tasks : GenCommit(t)
  \/ \E t \in Tasks : GenRollback(t)
  \/ \E t \in Tasks : Finish(t)
  \/ \E id \in 0..MaxPool, p \in PercentInputs, e \in BOOLEAN : PoolGamesUpsert(id, p, e)
  \/ \E id \in PoolIds : PoolGamesDelete(id)
  \/ \E d \in {TTL, RETENTION} : TimePasses(d)
  \/ \E c \in Conns : ConnClose(c)

Spec == Init /\ [][Next]_vars

\* ------------------------------------------- two overlapping generations
\* a listening process with its trigger registered, an enabled pool and no
\* snapshot row (the start-up call found the pool empty; entries were added
\* since), with room for a second handler in flight; gens and log count the
\* generateSnapshot calls from here on
InitOverlap ==
  /\ now = 0
  /\ SNAPSHOT_SIZE \in SizeValues
  /\ \E k \in 1..MaxPool :
       /\ pool_games = [i \in PoolIds |-> IF i <= k THEN SeedEntry ELSE Absent]
       /\ nextPoolId = k + 1
  /\ game_snapshots = {}
  /\ rtp_updated_text = nowIdDateIndo(0)
  /\ conn = [c \in Conns |-> IdleConn]
  /\ task = [t \in 1..(MaxTasks + 1) |-> IdleTask]
  /\ gens = 0
  /\ faults = 0
  /\ adminOps = 0
  /\ reads = 0
  /\ jumps = 0
  /\ last = 1
  /\ switches = 0
  /\ log = <<>>
  /\ pk = NoPick
  /\ SNAPSHOT_CRON = "0 * * * *"
  /\ server = [NotStarted EXCEPT !.pc = "listening", !.cron = TRUE, !.startup = "returned"]
  /\ tokenStore = <<>>

\* a GET /api/games that misses the cache and a cron tick that fires while
\* the reader's generateSnapshot is in flight, each statement of the one
\* interleaved with the other's
NextOverlap ==
  \/ task[MaxTasks + 1].pc \in GenPcs /\ CronTick(1)
  \/ GetGames(MaxTasks + 1)
  \/ \E t \in DOMAIN task : GamesQuery1(t)
  \/ \E t \in DOMAIN task : GamesQuery2(t)
  \/ \E t \in DOMAIN task : GenSelect(t)
  \/ \E t \in DOMAIN task : GenBegin(t)
  \/ \E t \in DOMAIN task : GenInsert(t)
  \/ \E t \in DOMAIN task : setSetting(t)
  \/ \E t \in DOMAIN task : GenPrune(t)
  \/ \E t \in DOMAIN task : GenCommit(t)
  \/ \E t \in DOMAIN task : GenRollback(t)
  \/ \E t \in DOMAIN task : Finish(t)

SpecOverlap == InitOverlap /\ [][NextOverlap]_vars

\* --------------------------------------------- the admin trigger and auth
\* the process with its admin login and admin trigger requests only
NextAuth ==
  \/ \E t \in Tasks : InitDb(t)
  \/ \E t \in Tasks : BootSchedule(t)
  \/ \E t \in Tasks : BootCatch(t)
  \/ AdminLogin
  \/ \E t \in Tasks, token \in TokenInputs : AdminSnapshotRunRequest(t, token)
  \/ \E t \in Tasks : GenSelect(t)
  \/ \E t \in Tasks : GenBegin(t)
  \/ \E t \in Tasks : GenInsert(t)
  \/ \E t \in Tasks : setSetting(t)
  \/ \E t \in Tasks : GenPrune(t)
  \/ \E t \in Tasks : GenCommit(t)
  \/ \E t \in Tasks : GenRollback(t)
  \/ \E t \in Tasks : Finish(t)
  \/ \E d \in {TOKEN_TTL, RETENTION} : TimePasses(d)

SpecAuth == Init /\ [][NextAuth]_vars

\* ------------------------------------------------- pickRandom on its own
PickValues == {"x", "y"}

\* the arrays of at most MaxPickLen entries; an entry is an object, told from
\* an equal one by its position in the input
RECURSIVE ArraysUpTo(_)
ArraysUpTo(len) ==
  IF len = 0 THEN { <<>> }
  ELSE ArraysUpTo(len - 1) \cup [1..len -> PickValues]
Entries(vals) == [i \in 1..Len(vals) |-> [pos |-> i, val |-> vals[i]]]

RestInit ==
  /\ now = 0
  /\ SNAPSHOT_SIZE = 1
  /\ pool_games = [i \in PoolIds |-> Absent]
  /\ nextPoolId = 1
  /\ game_snapshots = {}
  /\ rtp_updated_text = nowIdDateIndo(0)
  /\ conn = [c \in Conns |-> IdleConn]
  /\ task = [t \in Tasks |-> IdleTask]
  /\ gens = 0
  /\ faults = 0
  /\ adminOps = 0
  /\ reads = 0
  /\ jumps = 0
  /\ last = 1
  /\ switches = 0
  /\ log = <<>>
  /\ SNAPSHOT_CRON = "0 * * * *"
  /\ server = NotStarted
  /\ tokenStore = <<>>

InitPick ==
  /\ RestInit
  /\ \E vals \in ArraysUpTo(MaxPickLen), n \in 1..MaxPickN :
       pk = [arr |-> Entries(vals), n |-> n, done |-> FALSE,
             out |-> <<>>, after |-> Entries(vals)]

\* one call pickRandom(arr, n)
PickCall ==
  /\ ~pk.done
  /\ \E r \in pickRandom(pk.arr, pk.n) :
       pk' = [pk EXCEPT !.done = TRUE, !.out = r.out, !.after = r.arr]
  /\ UNCHANGED <<now, SNAPSHOT_SIZE, pool_games, nextPoolId, game_snapshots,
                 rtp_updated_text, conn, task, gens, faults, adminOps, reads,
                 jumps, last, switches, log, SNAPSHOT_CRON, server, tokenStore>>

NextPick == PickCall

SpecPick == InitPick /\ [][NextPick]_vars

\* ================================================================ claims
Range(f) == { f[i] : i \in DOMAIN f }
IsOk(o) == o \in { Succeeded(n) : n \in 0..MaxPool }
InGen(t) == task[t].pc \in GenPcs
\* rows of game_snapshots written by call number g
BatchOf(rows, g) == { r \in rows : r.by = g }
\* the enabled rows of the committed pool_games table
EnabledIds == { i \in PoolIds : pool_games[i] # Absent /\ pool_games[i].enabled }
\* no row that a statement on connection c sees is enabled
NoneEnabledOn(c) ==
  \A i \in PoolIds : SeenPool(c)[i] = Absent \/ ~SeenPool(c)[i].enabled

\* every call so far took effect as a whole: a call that succeeded has its full
\* batch in the table, and no other call has left a row there
AllCommittedInFull ==
  \A g \in 1..Len(log) :
    Cardinality(BatchOf(game_snapshots, g)) = IF IsOk(log[g]) THEN log[g].count ELSE 0

(***************************************************************************)
(* C1: when a statement of the write sequence fails and generateSnapshot   *)
(* returns the failed outcome, game_snapshots and rtp_updated_text are     *)
(* exactly as they were when the call began (no other handler having run   *)
(* in between).                                                            *)
(***************************************************************************)
C1_FailedCallLeavesNoTrace ==
  [][\A t \in Tasks :
       (InGen(t) /\ task[t].solo /\ task'[t].outcome = Failed)
         => /\ game_snapshots' = task[t].pre.snap
            /\ rtp_updated_text' = task[t].pre.label]_vars

(***************************************************************************)
(* C2: a call that returns { ok: true, count } has committed exactly       *)
(* count = min(max(1, SNAPSHOT_SIZE), P) rows, P the number of enabled     *)
(* pool rows, each a copy of a distinct enabled pool row, and has set      *)
(* rtp_updated_text to the label of the current date.                     *)
(***************************************************************************)
C2_SucceededCallCommittedItsBatch ==
  [][\A t \in Tasks :
       (InGen(t) /\ task[t].solo /\ IsOk(task'[t].outcome))
         => LET mine == BatchOf(game_snapshots', task[t].gen)
                count == task'[t].outcome.count
            IN /\ count = Min(BatchLimit, Cardinality(EnabledIds))
               /\ Cardinality(mine) = count
               /\ \A r \in mine : /\ r.src \in EnabledIds
                                   /\ r.percent = pool_games[r.src].percent
               /\ \A r, q \in mine : r.src = q.src => r = q
               /\ \E d \in (task[t].pre.at \div DAY)..(now' \div DAY) :
                     rtp_updated_text'.date = d]_vars

(***************************************************************************)
(* C3: when the enabled-pool SELECT of generateSnapshot finds no enabled   *)
(* row (empty pool, or every row disabled), the call returns               *)
(* { ok: false, reason: "no_pool" } and writes nothing: game_snapshots,    *)
(* rtp_updated_text and every open transaction are unchanged.              *)
(***************************************************************************)
C3_EmptyPoolSkipsAndWritesNothing ==
  [][\A t \in Tasks :
       (task[t].pc = "select" /\ task'[t].pc # "select" /\ faults' = faults
          /\ NoneEnabledOn(last'))
         => /\ task'[t].outcome = Skipped
            /\ UNCHANGED <<game_snapshots, rtp_updated_text, pool_games, conn>>]_vars

\* a call returned no_pool although game_snapshots holds rows and the pool
\* holds a (disabled) row
C3_Witness ==
  \E t \in Tasks :
    /\ task[t].outcome = Skipped
    /\ game_snapshots # {}
    /\ \E i \in PoolIds : pool_games[i] # Absent /\ ~pool_games[i].enabled

(***************************************************************************)
(* C4: a GET /api/games that found no row inside the freshness window and  *)
(* whose generateSnapshot call returned (succeeded or skipped) answers     *)
(* with exactly the rows of the batch that call created: as many rows as   *)
(* the call counted, all of them its own, and no row at all when the pool  *)
(* was empty.  (Stated for the runs in which every call took effect as a   *)
(* whole.)                                                                 *)
(***************************************************************************)
C4_FallbackAnswersWithNewBatch ==
  \A t \in Tasks :
    (task[t].kind = "games" /\ task[t].pc = "done" /\ task[t].status = 200
       /\ task[t].gen # 0 /\ (IsOk(task[t].outcome) \/ task[t].outcome = Skipped)
       /\ AllCommittedInFull)
      => /\ \A i \in 1..Len(task[t].body) : task[t].body[i].by = task[t].gen
         /\ Len(task[t].body) = IF IsOk(task[t].outcome) THEN task[t].outcome.count ELSE 0

(***************************************************************************)
(* C5: after a generateSnapshot call succeeded and committed its batch,    *)
(* and before any further call, the freshness-window query of              *)
(* GET /api/games returns exactly the rows of that batch.  (Stated for the *)
(* runs in which every call took effect as a whole.)                       *)
(***************************************************************************)
C5_FreshQueryReturnsNewestBatch ==
  \A t \in Tasks :
    (/\ task[t].kind = "games" /\ task[t].pc = "done" /\ task[t].status = 200
     /\ task[t].gen = 0
     /\ gens > 0 /\ IsOk(log[gens])
     /\ AllCommittedInFull)
      => Range(task[t].body) = BatchOf(game_snapshots, gens)

(***************************************************************************)
(* C6: when generateSnapshot returns, whatever its outcome, game_snapshots *)
(* holds no row whose created_at is older than the 7-day horizon.  (Stated *)
(* for the runs in which every earlier call took effect as a whole.)       *)
(***************************************************************************)
C6_NoExpiredRowAfterReturn ==
  [][\A t \in Tasks :
       (/\ InGen(t) /\ AllCommittedInFull
        /\ task'[t].outcome \in {Skipped, Failed} \cup { Succeeded(n) : n \in 0..MaxPool })
         => \A r \in game_snapshots' : r.created_at >= now' - RETENTION]_vars

(***************************************************************************)
(* C7: when a storage operation fails on the fallback path of              *)
(* GET /api/games (inside the generateSnapshot it calls, or in the         *)
(* re-query), the client gets status 200 with the empty sequence.          *)
(***************************************************************************)
C7_FallbackFailureAnswersEmpty ==
  \A t \in Tasks :
    (/\ task[t].kind = "games" /\ task[t].pc = "done" /\ task[t].gen # 0
     /\ (task[t].outcome \in {Failed, Threw} \/ task[t].status = 500))
      => task[t].status = 200 /\ task[t].body = <<>>

(***************************************************************************)
(* C8: generateSnapshot never throws: every call ends with a returned      *)
(* outcome value.                                                          *)
(***************************************************************************)
C8_GenerateNeverThrows ==
  \A g \in 1..Len(log) : log[g] # Threw

(***************************************************************************)
(* C9: pickRandom(arr, n) with n >= 1 returns exactly min(n, P) entries,   *)
(* each an entry of arr, no position of arr taken twice, and leaves arr    *)
(* as it was.                                                              *)
(***************************************************************************)
C9_PickRandomContract ==
  pk.done =>
    /\ Len(pk.out) = Min(pk.n, Len(pk.arr))
    /\ \A i \in 1..Len(pk.out) : pk.out[i] \in Range(pk.arr)
    /\ \A i, j \in 1..Len(pk.out) : pk.out[i].pos = pk.out[j].pos => i = j
    /\ pk.after = pk.arr

\* a pick of two out of three entries, two of which are equal in value
C9_Witness ==
  /\ pk.done /\ Len(pk.arr) = 3 /\ pk.n = 2
  /\ pk.arr[1].val = pk.arr[2].val
  /\ Len(pk.out) = 2 /\ pk.out[1].pos = 3

(***************************************************************************)
(* C10: after two successive successful generateSnapshot calls the table   *)
(* holds both batches in full and no row of the second shares its          *)
(* created_at with a row of the first.                                     *)
(***************************************************************************)
C10_SuccessiveBatchesDistinct ==
  \A g \in 1..(Len(log) - 1) :
    (IsOk(log[g]) /\ IsOk(log[g + 1]))
      => /\ Cardinality(BatchOf(game_snapshots, g)) = log[g].count
         /\ Cardinality(BatchOf(game_snapshots, g + 1)) = log[g + 1].count
         /\ \A a \in BatchOf(game_snapshots, g), b \in BatchOf(game_snapshots, g + 1) :
               a.created_at # b.created_at

(***************************************************************************)
(* C11: the rows one generateSnapshot call has put into game_snapshots     *)
(* all carry the same created_at.                                          *)
(***************************************************************************)
C11_BatchSharesCreatedAt ==
  \A r, q \in game_snapshots : r.by = q.by => r.created_at = q.created_at

(***************************************************************************)
(* C12: in a process that has started listening, generateSnapshot was      *)
(* called once at start, and no instant of the configured cadence has      *)
(* passed without the cron callback calling it.                            *)
(***************************************************************************)
C12_StartupAndEveryTickGenerate ==
  server.pc = "listening" =>
    /\ server.startup \in {"returned", "threw"}
    /\ server.missed = 0

(***************************************************************************)
(* C13: when cron.schedule has rejected a malformed SNAPSHOT_CRON, the     *)
(* start-up generateSnapshot call has returned before, the process is      *)
(* listening, no trigger is registered and no cron callback runs, now or   *)
(* later.                                                                  *)
(***************************************************************************)
C13_MalformedCronIsNotFatal ==
  (SNAPSHOT_CRON # "0 * * * *" /\ server.startup = "returned")
    => /\ server.pc = "listening"
       /\ ~server.cron
       /\ \A t \in Tasks : task[t].kind # "tick"
       /\ Len(log) >= 1 /\ log[1] \notin {NoOutcome, Threw}

\* with a malformed SNAPSHOT_CRON the process has answered a GET /api/games
C13_Witness ==
  /\ SNAPSHOT_CRON # "0 * * * *" /\ server.startup = "returned"
  /\ \E t \in Tasks : task[t].kind = "games" /\ task[t].pc = "done" /\ task[t].status = 200

(***************************************************************************)
(* C14: a committed game_snapshots row stays in the table as it is, under  *)
(* every step of every handler (pool-games upsert and delete, reads,       *)
(* generations, transaction control on any connection); it leaves the      *)
(* table only when it is older than 7 days, and then no row with its       *)
(* identity (call and pool entry) remains.                                 *)
(***************************************************************************)
C14_SnapshotRowsAreImmutable ==
  [][\A r \in game_snapshots :
       \/ r \in game_snapshots'
       \/ /\ r.created_at < now' - RETENTION
          /\ ~\E q \in game_snapshots' : q.by = r.by /\ q.src = r.src]_vars

\* a committed row whose pool entry has since been edited or deleted
C14_Witness ==
  \E r \in game_snapshots :
    /\ adminOps > 0
    /\ \/ pool_games[r.src] = Absent
       \/ pool_games[r.src].percent # r.percent

(***************************************************************************)
(* C17: a GET /api/games whose first query finds a row inside the          *)
(* freshness window answers 200 with those rows, newest first, at most     *)
(* max(1, SNAPSHOT_SIZE) of them and none older than a fresh row left      *)
(* out; it does not call generateSnapshot and writes nothing.              *)
(***************************************************************************)
C17_FreshHitReadsOnly ==
  [][\A t \in Tasks :
       (task[t].pc = "q1" /\ task'[t] # task[t] /\ faults' = faults)
         => LET fresh == { r \in SeenSnapshots(last') : r.created_at >= NOW(last') - TTL }
                body == task'[t].body
            IN fresh # {} =>
                 /\ task'[t].pc = "done" /\ task'[t].status = 200
                 /\ gens' = gens /\ log' = log
                 /\ UNCHANGED <<game_snapshots, rtp_updated_text, pool_games, conn>>
                 /\ Len(body) = Min(BatchLimit, Cardinality(fresh))
                 /\ \A i \in 1..Len(body) : body[i] \in fresh
                 /\ \A i, j \in 1..Len(body) :
                      i < j => body[i].created_at >= body[j].created_at /\ body[i] # body[j]
                 /\ \A r \in fresh \ Range(body) :
                      \A i \in 1..Len(body) : r.created_at <= body[i].created_at]_vars

\* a read answered from the window with fewer rows than the batch size
C17_Witness ==
  \E t \in Tasks :
    /\ task[t].kind = "games" /\ task[t].pc = "done" /\ task[t].status = 200
    /\ task[t].gen = 0
    /\ Len(task[t].body) >= 1 /\ Len(task[t].body) < BatchLimit

(***************************************************************************)
(* C18: a request handler runs only in a listening process, and never      *)
(* while the start-up generateSnapshot call is running; a process that     *)
(* listens after that call returned has tried to register the trigger      *)
(* (registered exactly when SNAPSHOT_CRON is well-formed); a process that  *)
(* listens after initDb or the start-up call threw has no trigger.         *)
(***************************************************************************)
C18_ListenAfterStartup ==
  /\ \A t \in Tasks :
       task[t].kind \in {"games", "run", "tick"}
         => server.pc = "listening" /\ server.startup # "running"
  /\ \A t \in Tasks :
       task[t].kind = "boot"
         => server.pc = "startup" /\ \A u \in Tasks \ {t} : task[u].kind = "none"
  /\ server.startup = "running" => server.pc = "startup"
  /\ (server.pc = "listening" /\ server.startup = "returned")
       => server.cron = (SNAPSHOT_CRON = "0 * * * *")
  /\ (server.pc = "listening" /\ server.startup \in {"none", "threw"})
       => ~server.cron

\* the start-up call threw and the listening process is answering a read
C18_Witness ==
  /\ server.pc = "listening" /\ server.startup = "threw" /\ ~server.cron
  /\ \E t \in Tasks : task[t].kind = "games" /\ task[t].pc = "done"

(***************************************************************************)
(* C15: a POST /api/admin/snapshot/run whose x-admin-token is in           *)
(* tokenStore (issued by a login) and not past its expiry calls            *)
(* generateSnapshot; with a missing, unknown or expired token it is        *)
(* answered 401, generateSnapshot is not called and the tables are         *)
(* unchanged; every 200 response of the handler carries the outcome that   *)
(* its generateSnapshot call returned.                                     *)
(***************************************************************************)
C15_AdminTriggerNeedsValidToken ==
  [][/\ \A t \in Tasks, token \in TokenInputs :
          AdminSnapshotRunRequest(t, token) =>
            IF token \in DOMAIN tokenStore /\ now <= tokenStore[token]
              THEN /\ task'[t].kind = "run" /\ task'[t].pc = "select"
                   /\ gens' = gens + 1
              ELSE /\ task'[t].pc = "done" /\ task'[t].status = 401
                   /\ gens' = gens /\ log' = log
                   /\ UNCHANGED <<game_snapshots, rtp_updated_text, pool_games, conn>>
     /\ \A t \in Tasks :
          (task'[t].kind = "run" /\ task'[t].status = 200)
            => /\ task'[t].gen # 0
               /\ task'[t].body = log'[task'[t].gen]
               /\ task'[t].body \notin {NoOutcome, Threw}]_vars

\* the admin trigger answered with the outcome of a call made with a token
\* presented at the very instant of its expiry
C15_Witness ==
  \E t \in Tasks, token \in DOMAIN tokenStore :
    /\ task[t].kind = "run" /\ task[t].pc = "done" /\ task[t].status = 200
    /\ IsOk(task[t].body)
    /\ tokenStore[token] = task[t].pre.at

(***************************************************************************)
(* C16: once two overlapping generateSnapshot calls have both returned,   *)
(* game_snapshots holds at most two new batches, every call that returned  *)
(* { ok: true, count } has its count rows there, and every call that       *)
(* returned the failed outcome has none of its rows there.                 *)
(***************************************************************************)
C16_OverlappingCallsStayWhole ==
  (Len(log) = 2 /\ \A g \in 1..2 : log[g] # NoOutcome) =>
    /\ Cardinality({ r.by : r \in game_snapshots }) <= 2
    /\ \A g \in 1..2 :
         /\ IsOk(log[g]) => Cardinality(BatchOf(game_snapshots, g)) = log[g].count
         /\ log[g] = Failed => BatchOf(game_snapshots, g) = {}

====
